---- MODULE Spec2Model ----
(***************************************************************************)
(* Model of scripts/visdrone2yolo.py: the VisDrone -> YOLO annotation      *)
(* converter (convert_box and the per-split driver visdrone2yolo).         *)
(*                                                                         *)
(* Text is modelled as sequences of one-character strings, so that         *)
(* str.split, the comparisons with '0', int() and the '.6f' formatting are *)
(* computed the way Python computes them.  Floating-point values are kept  *)
(* as exact fractions <<num, den>>; see Fmt6 for what that abstracts.      *)
(***************************************************************************)
EXTENDS Integers, Sequences, FiniteSets, TLC

VARIABLES
    files,      \* names n such that annotations/<split>/n.txt exists
    ann,        \* ann[n]: file.read().strip().splitlines() of n.txt
    img,        \* img[n]: images/<split>/n.jpg: missing, unreadable or its size
    labelsDir,  \* TRUE iff the directory labels/<split> exists
    labels,     \* labels[n]: the file labels/<split>/n.txt
    pc,         \* position of the driver
    run,        \* number of the current invocation of the driver
    todo,       \* annotation files the glob has not yielded yet
    cur,        \* f, the annotation file of the current iteration
    img_size,   \* img_size of the current iteration
    idx,        \* index of the next row of the current annotation file
    lines,      \* the list `lines` of the current iteration
    log,        \* messages printed so far
    exc,        \* the exception that escaped the driver, or "none"
    snap        \* the labels directory as the previous invocation left it

vars == <<files, ann, img, labelsDir, labels, pc, run, todo, cur, img_size,
          idx, lines, log, exc, snap>>

(***************************************************************************)
(* Bounds of the model.                                                    *)
(***************************************************************************)
MaxRows == 3
MaxRuns == 2

Names == {"a", "b"}

(***************************************************************************)
(* Text helpers: Python str operations on sequences of characters.         *)
(***************************************************************************)
DigitChars == <<"0", "1", "2", "3", "4", "5", "6", "7", "8", "9">>

IsDigit(c) == \E d \in 1..10 : DigitChars[d] = c

DigitVal(c) == (CHOOSE d \in 1..10 : DigitChars[d] = c) - 1

IsSpace(c) == c \in {" ", "\t", "\n", "\r"}

RECURSIVE LStrip(_)
LStrip(s) == IF s # <<>> /\ IsSpace(s[1]) THEN LStrip(Tail(s)) ELSE s

RECURSIVE RStrip(_)
RStrip(s) ==
    IF s # <<>> /\ IsSpace(s[Len(s)]) THEN RStrip(SubSeq(s, 1, Len(s) - 1)) ELSE s

Strip(s) == RStrip(LStrip(s))

\* str.split(sep) for a one-character separator: always at least one piece.
RECURSIVE SplitFrom(_, _, _, _)
SplitFrom(s, sep, piece, acc) ==
    IF s = <<>> THEN Append(acc, piece)
    ELSE IF s[1] = sep THEN SplitFrom(Tail(s), sep, <<>>, Append(acc, piece))
    ELSE SplitFrom(Tail(s), sep, Append(piece, s[1]), acc)

Split(s, sep) == SplitFrom(s, sep, <<>>, <<>>)

\* sep.join(parts)
RECURSIVE Join(_, _)
Join(parts, sep) ==
    IF parts = <<>> THEN <<>>
    ELSE IF Len(parts) = 1 THEN parts[1]
    ELSE parts[1] \o sep \o Join(Tail(parts), sep)

(***************************************************************************)
(* int(str): surrounding whitespace is ignored, then an optional sign and  *)
(* decimal digits, single underscores allowed between digits; anything     *)
(* else raises ValueError.                                                 *)
(***************************************************************************)
DigitPart(s) ==
    /\ s # <<>>
    /\ IsDigit(s[1])
    /\ IsDigit(s[Len(s)])
    /\ \A i \in 1..Len(s) : IsDigit(s[i]) \/ s[i] = "_"
    /\ \A i \in 1..(Len(s) - 1) : ~(s[i] = "_" /\ s[i + 1] = "_")

RECURSIVE DigitsValue(_, _)
DigitsValue(s, acc) ==
    IF s = <<>> THEN acc
    ELSE IF s[1] = "_" THEN DigitsValue(Tail(s), acc)
    ELSE DigitsValue(Tail(s), acc * 10 + DigitVal(s[1]))

ValueError == [ok |-> FALSE, val |-> 0]

PyInt(text) ==
    LET s == Strip(text)
        signed == s # <<>> /\ s[1] \in {"+", "-"}
        body == IF signed THEN Tail(s) ELSE s
    IN  IF ~DigitPart(body) THEN ValueError
        ELSE [ok |-> TRUE,
              val |-> IF signed /\ s[1] = "-" THEN 0 - DigitsValue(body, 0)
                      ELSE DigitsValue(body, 0)]

(***************************************************************************)
(* str(int) for a non-negative int, and f'{x:.6f}' for a fraction          *)
(* x = <<num, den>> with 0 <= num, 0 < den.  '.6f' prints the decimal       *)
(* nearest to the binary64 value; a fraction that is not a decimal tie at  *)
(* the sixth digit is farther from the tie than any binary64 rounding      *)
(* error, and at a tie the value is printed half-to-even, which is what    *)
(* Python prints when the binary64 value is exact (den a power of two).    *)
(* ImgSizes below holds only sizes for which every tie is of that kind.    *)
(***************************************************************************)
RECURSIVE NatStr(_)
NatStr(n) ==
    IF n < 10 THEN <<DigitChars[n + 1]>>
    ELSE Append(NatStr(n \div 10), DigitChars[(n % 10) + 1])

IntStr(n) == IF n < 0 THEN <<"-">> \o NatStr(0 - n) ELSE NatStr(n)

Million == 1000000

\* the value rounded to a whole number of millionths
Round6(x) ==
    LET num == x[1]
        den == x[2]
        q == num \div den
        scaled == (num % den) * Million
        f == scaled \div den
        rem == scaled % den
        up == 2 * rem > den \/ (2 * rem = den /\ f % 2 = 1)
    IN  q * Million + f + (IF up THEN 1 ELSE 0)

RECURSIVE Pad(_, _)
Pad(s, width) == IF Len(s) >= width THEN s ELSE Pad(<<"0">> \o s, width)

Fmt6(x) ==
    LET m == Round6(x)
    IN  NatStr(m \div Million) \o <<".">> \o Pad(NatStr(m % Million), 6)

(***************************************************************************)
(* convert_box(size, box): size = <<W, H>>, box = <<x1, y1, w, h>>.         *)
(* dw = 1/W, dh = 1/H; the four results as fractions.                      *)
(***************************************************************************)
\* convert_box with the centre taken at the far corner (the halving left out)
convert_box_NoHalf(size, box) ==
    <<<<2 * (box[1] + box[3]), 2 * size[1]>>, <<2 * (box[2] + box[4]), 2 * size[2]>>,
      <<box[3], size[1]>>, <<box[4], size[2]>>>>

convert_box(size, box) ==
    LET center_x == <<2 * box[1] + box[3], 2 * size[1]>>
        center_y == <<2 * box[2] + box[4], 2 * size[2]>>
        width == <<box[3], size[1]>>
        height == <<box[4], size[2]>>
    IN  <<center_x, center_y, width, height>>

\* the check with its upper bound left out
InUnit_LowerOnly(x) == 0 <= x[1]

\* 0 <= x <= 1
InUnit(x) == 0 <= x[1] /\ x[1] <= x[2]

(***************************************************************************)
(* The body of the row loop, lines 85-108, for one row of the file:        *)
(* what it does with the row and, for an accepted row, the text appended   *)
(* to `lines`.                                                             *)
(***************************************************************************)
TooShort(row) == Len(row) < 8

IgnoredRegion(row) == row[6] = <<"0">>

ZeroScore(row) == row[5] = <<"0">>

\* the check with its lower bound left out
ClassInRange_UpperOnly(cls) == ~(cls > 9)

ClassInRange(cls) == ~(cls < 0 \/ cls > 9)

\* the check applied to the centre only
BoxInRange_CentreOnly(box) == \A i \in 1..2 : InUnit(box[i])

BoxInRange(box) == \A i \in 1..4 : InUnit(box[i])

\* f"{cls} {' '.join(f'{x:.6f}' for x in box)}\n"
LineText(cls, box) ==
    IntStr(cls) \o <<" ">>
        \o Join(<<Fmt6(box[1]), Fmt6(box[2]), Fmt6(box[3]), Fmt6(box[4])>>, <<" ">>)
        \o <<"\n">>

Skipped(stage) == [kind |-> "skip", stage |-> stage, text |-> <<>>]

Raised(stage) == [kind |-> "error", stage |-> stage, text |-> <<>>]

Accepted(text) == [kind |-> "line", stage |-> "append", text |-> text]

ProcessRow(size, line) ==
    LET row == Split(line, ",")
    IN  IF TooShort(row) THEN Skipped("fields")
        ELSE IF IgnoredRegion(row) THEN Skipped("category")
        ELSE IF ZeroScore(row) THEN Skipped("score")
        ELSE IF ~PyInt(row[6]).ok THEN Raised("int(category)")
        ELSE LET cls == PyInt(row[6]).val - 1
             IN  IF ~ClassInRange(cls) THEN Skipped("class")
                 ELSE IF \E i \in 1..4 : ~PyInt(row[i]).ok THEN Raised("int(box)")
                 ELSE LET box == convert_box(size, [i \in 1..4 |-> PyInt(row[i]).val])
                      IN  IF BoxInRange(box) THEN Accepted(LineText(cls, box))
                          ELSE Skipped("bounds")

(***************************************************************************)
(* The file system the driver works on.                                    *)
(***************************************************************************)
NoFile == [exists |-> FALSE, data |-> <<>>]

Missing == [state |-> "missing", size |-> <<0, 0>>]

Unreadable == [state |-> "unreadable", size |-> <<0, 0>>]

Image(size) == [state |-> "ok", size |-> size]

\* a line of comma-separated fields, the two unused fields being "0"
Line8(x, y, w, h, score, category) ==
    Join(<<x, y, w, h, score, category, <<"0">>, <<"0">>>>, <<",">>)

XTexts == {<<"1", "0", "0">>, <<"6", "0">>, <<"1">>, <<"-", "5">>, <<"x">>}

YTexts == {<<"1", "0", "0">>, <<"1", "0">>}

WTexts == {<<"5", "0">>, <<"1">>, <<"2", "0", "0">>}

HTexts == {<<"5", "0">>}

ScoreTexts == {<<"1">>, <<"0">>, <<" ", "0">>, <<"0", "0">>}

CatTexts == {<<"3">>, <<"1">>, <<"1", "0">>, <<"1", "1">>, <<"0">>, <<" ", "0">>,
             <<"0", "0">>, <<"x">>}

ImgSizes == {<<1000, 1000>>, <<100, 50>>, <<64, 64>>}

ValidLine == Line8(<<"1", "0", "0">>, <<"1", "0", "0">>, <<"5", "0">>, <<"5", "0">>,
                   <<"1">>, <<"3">>)

BadLine == Line8(<<"x">>, <<"1", "0", "0">>, <<"5", "0">>, <<"5", "0">>, <<"1">>, <<"3">>)

DroppedLine == Line8(<<"1", "0", "0">>, <<"1", "0", "0">>, <<"5", "0">>, <<"5", "0">>,
                     <<"0">>, <<"3">>)

ShortLine == Join(<<<<"1">>, <<"2">>, <<"3">>, <<"4">>, <<"1">>, <<"3">>, <<"0">>>>, <<",">>)

LongLine == ValidLine \o <<",", "7">>

RowLines ==
    {Line8(x, y, w, h, s, c) :
        x \in XTexts, y \in YTexts, w \in WTexts, h \in HTexts,
        s \in ScoreTexts, c \in CatTexts}
    \cup {ShortLine, LongLine, <<>>}

SplitLines == {ValidLine, BadLine, DroppedLine}

RECURSIVE SeqsUpTo(_, _)
SeqsUpTo(S, n) ==
    IF n = 0 THEN {<<>>}
    ELSE LET shorter == SeqsUpTo(S, n - 1)
         IN  shorter \cup {Append(q, e) : q \in shorter, e \in S}

\* a label file left by something else than this conversion
StaleFile ==
    [exists |-> TRUE,
     data |-> <<LineText(9, <<<<1, 2>>, <<1, 2>>, <<1, 10>>, <<1, 10>>>>)>>]

InitLocals ==
    /\ pc = "start"
    /\ run = 1
    /\ todo = {}
    /\ cur = "none"
    /\ img_size = <<0, 0>>
    /\ idx = 0
    /\ lines = <<>>
    /\ log = {}
    /\ exc = "none"
    /\ snap = [dir |-> labelsDir, files |-> labels]

\* one annotation file holding one row, over many rows and image sizes
InitRow ==
    /\ files = {"a"}
    /\ \E r \in RowLines : ann = [n \in Names |-> IF n = "a" THEN <<r>> ELSE <<>>]
    /\ \E sz \in ImgSizes : img = [n \in Names |-> IF n = "a" THEN Image(sz) ELSE Missing]
    /\ labelsDir = FALSE
    /\ labels = [n \in Names |-> NoFile]
    /\ InitLocals

\* a split of up to two annotation files of several rows
InitSplit ==
    /\ files \in SUBSET Names
    /\ \E ra \in SeqsUpTo(SplitLines, MaxRows), rb \in SeqsUpTo({ValidLine}, 1) :
           ann = [n \in Names |-> IF n \notin files THEN <<>>
                                  ELSE IF n = "a" THEN ra ELSE rb]
    /\ \E ia \in {Missing, Unreadable, Image(<<1000, 1000>>)},
          ib \in {Missing, Image(<<1000, 1000>>)} :
           img = [n \in Names |-> IF n = "a" THEN ia ELSE ib]
    /\ labelsDir \in BOOLEAN
    /\ \E la \in {NoFile, StaleFile} :
           labels = [n \in Names |-> IF n = "a" /\ labelsDir THEN la ELSE NoFile]
    /\ InitLocals

Init == InitRow \/ InitSplit

(***************************************************************************)
(* visdrone2yolo(annotations_dir)                                          *)
(***************************************************************************)
\* labels_dir.mkdir(parents=True, exist_ok=True), then the glob is set up
Mkdir ==
    /\ pc = "start"
    /\ labelsDir' = TRUE
    /\ todo' = files
    /\ pc' = "loop"
    /\ UNCHANGED <<files, ann, img, labels, run, cur, img_size, idx, lines, log, exc, snap>>

\* for f in pbar: the glob yields the next annotation file, in no particular order
Iterate(entry) ==
    /\ pc = "loop"
    /\ \E f \in todo :
        /\ cur' = f
        /\ todo' = todo \ {f}
    /\ pc' = entry
    /\ UNCHANGED <<files, ann, img, labelsDir, labels, run, img_size, idx, lines, log, exc, snap>>

NextFile == Iterate("locate")

\* the glob is exhausted: the function returns
LoopEnd ==
    /\ pc = "loop"
    /\ todo = {}
    /\ pc' = "done"
    /\ UNCHANGED <<files, ann, img, labelsDir, labels, run, todo, cur, img_size, idx, lines,
                   log, exc, snap>>

\* img_path = images_dir / f.name.with_suffix('.jpg'): f.name is a str, which has
\* no with_suffix, so the line raises AttributeError; it is outside every try
LocateImage ==
    /\ pc = "locate"
    /\ exc' = "AttributeError"
    /\ pc' = "raised"
    /\ UNCHANGED <<files, ann, img, labelsDir, labels, run, todo, cur, img_size, idx, lines,
                   log, snap>>

\* the converter is invoked again on the same dataset
Rerun ==
    /\ pc \in {"done", "raised"}
    /\ run < MaxRuns
    /\ run' = run + 1
    /\ snap' = [dir |-> labelsDir, files |-> labels]
    /\ pc' = "start"
    /\ todo' = {}
    /\ cur' = "none"
    /\ img_size' = <<0, 0>>
    /\ idx' = 0
    /\ lines' = <<>>
    /\ log' = {}
    /\ exc' = "none"
    /\ UNCHANGED <<files, ann, img, labelsDir, labels>>

\* The driver as written: every iteration of the file loop ends at line 63.
Next == Mkdir \/ NextFile \/ LoopEnd \/ LocateImage \/ Rerun

Spec == Init /\ [][Next]_vars

(***************************************************************************)
(* The body of the file loop below line 63, lines 65-117, entered for f    *)
(* with img_path = images/<split>/<f>.jpg, the path line 63 is written to  *)
(* compute.  SpecBody runs the driver with this body; the row filter, the   *)
(* error handling and the write are checked under it.                      *)
(***************************************************************************)
BodyNextFile == Iterate("check")

\* if not img_path.exists(): print a warning; continue
ImageMissing ==
    /\ pc = "check"
    /\ img[cur].state = "missing"
    /\ log' = log \cup {<<"image not found", cur>>}
    /\ pc' = "loop"
    /\ UNCHANGED <<files, ann, img, labelsDir, labels, run, todo, cur, img_size, idx, lines,
                   exc, snap>>

ImageFound ==
    /\ pc = "check"
    /\ img[cur].state # "missing"
    /\ pc' = "open_img"
    /\ UNCHANGED <<files, ann, img, labelsDir, labels, run, todo, cur, img_size, idx, lines,
                   log, exc, snap>>

\* img_size = Image.open(img_path).size; lines = []; the annotation file is read
OpenImageOk ==
    /\ pc = "open_img"
    /\ img[cur].state = "ok"
    /\ img_size' = img[cur].size
    /\ lines' = <<>>
    /\ idx' = 1
    /\ pc' = "rows"
    /\ UNCHANGED <<files, ann, img, labelsDir, labels, run, todo, cur, log, exc, snap>>

\* except Exception around Image.open: print; continue
OpenImageError ==
    /\ pc = "open_img"
    /\ img[cur].state = "unreadable"
    /\ log' = log \cup {<<"error opening image", cur>>}
    /\ pc' = "loop"
    /\ UNCHANGED <<files, ann, img, labelsDir, labels, run, todo, cur, img_size, idx, lines,
                   exc, snap>>

HasRow == pc = "rows" /\ idx <= Len(ann[cur])

Row == ann[cur][idx]

\* a row that one of the `continue` statements of the row loop rejects
RowSkip ==
    /\ HasRow
    /\ ProcessRow(img_size, Row).kind = "skip"
    /\ idx' = idx + 1
    /\ UNCHANGED <<files, ann, img, labelsDir, labels, pc, run, todo, cur, img_size, lines,
                   log, exc, snap>>

\* lines.append(...)
RowEmit ==
    /\ HasRow
    /\ ProcessRow(img_size, Row).kind = "line"
    /\ lines' = Append(lines, ProcessRow(img_size, Row).text)
    /\ idx' = idx + 1
    /\ UNCHANGED <<files, ann, img, labelsDir, labels, pc, run, todo, cur, img_size, log,
                   exc, snap>>

\* the row loop with the try inside it: the except skips the row only
RowError_SkipsRowOnly ==
    /\ HasRow
    /\ ProcessRow(img_size, Row).kind = "error"
    /\ log' = log \cup {<<"error processing annotation", cur>>}
    /\ idx' = idx + 1
    /\ UNCHANGED <<files, ann, img, labelsDir, labels, pc, run, todo, cur, img_size, lines,
                   exc, snap>>

\* int() raises ValueError inside the try that encloses the whole row loop:
\* except Exception: print; continue with the next annotation file
RowError ==
    /\ HasRow
    /\ ProcessRow(img_size, Row).kind = "error"
    /\ log' = log \cup {<<"error processing annotation", cur>>}
    /\ pc' = "loop"
    /\ UNCHANGED <<files, ann, img, labelsDir, labels, run, todo, cur, img_size, idx, lines,
                   exc, snap>>

\* the rows are exhausted and `if lines:` is false: nothing is opened
EndRowsEmpty ==
    /\ pc = "rows"
    /\ idx > Len(ann[cur])
    /\ lines = <<>>
    /\ pc' = "loop"
    /\ UNCHANGED <<files, ann, img, labelsDir, labels, run, todo, cur, img_size, idx, lines,
                   log, exc, snap>>

\* open(label_path, 'a'): the file is created, or kept if it exists
OpenA(old) == [exists |-> TRUE, data |-> old.data]

\* open(label_path, 'w'): the file is created, or truncated if it exists
OpenW(old) == [exists |-> TRUE, data |-> <<>>]

\* the rows are exhausted and `if lines:` is true: with open(label_path, 'w')
OpenLabel ==
    /\ pc = "rows"
    /\ idx > Len(ann[cur])
    /\ lines # <<>>
    /\ labels' = [labels EXCEPT ![cur] = OpenW(@)]
    /\ pc' = "writelines"
    /\ UNCHANGED <<files, ann, img, labelsDir, run, todo, cur, img_size, idx, lines, log,
                   exc, snap>>

\* fl.writelines(lines) and the close at the end of the with block
WriteLines ==
    /\ pc = "writelines"
    /\ labels' = [labels EXCEPT ![cur] = [exists |-> TRUE, data |-> @.data \o lines]]
    /\ pc' = "loop"
    /\ UNCHANGED <<files, ann, img, labelsDir, run, todo, cur, img_size, idx, lines, log,
                   exc, snap>>

NextBody ==
    \/ Mkdir
    \/ BodyNextFile
    \/ LoopEnd
    \/ Rerun
    \/ ImageMissing
    \/ ImageFound
    \/ OpenImageOk
    \/ OpenImageError
    \/ RowSkip
    \/ RowEmit
    \/ RowError
    \/ EndRowsEmpty
    \/ OpenLabel
    \/ WriteLines

SpecBody == Init /\ [][NextBody]_vars

\* the write fails part-way (OSError from writelines or from the close): the
\* with block is in no try, so the exception escapes with a prefix on disk
WriteFault ==
    /\ pc = "writelines"
    /\ \E k \in 0..(Len(lines) - 1) :
           labels' = [labels EXCEPT ![cur] =
                          [exists |-> TRUE, data |-> @.data \o SubSeq(lines, 1, k)]]
    /\ exc' = "OSError"
    /\ pc' = "raised"
    /\ UNCHANGED <<files, ann, img, labelsDir, run, todo, cur, img_size, idx, lines, log,
                   snap>>

NextFault == NextBody \/ WriteFault

SpecFault == Init /\ [][NextFault]_vars

(***************************************************************************)
(* Vocabulary of the properties.                                           *)
(***************************************************************************)
Fields(line) == Split(line, ",")

\* the record has its six leading fields, all of them integers
IsRecord(line) ==
    /\ Len(Fields(line)) >= 8
    /\ \A i \in 1..6 : PyInt(Fields(line)[i]).ok

FieldInt(line, i) == PyInt(Fields(line)[i]).val

ScoreIsZero(line) ==
    Len(Fields(line)) >= 8 /\ PyInt(Fields(line)[5]).ok /\ FieldInt(line, 5) = 0

CategoryIsZero(line) ==
    Len(Fields(line)) >= 8 /\ PyInt(Fields(line)[6]).ok /\ FieldInt(line, 6) = 0

\* the lines the row filter accepts among rows, in order
RECURSIVE Survivors(_, _)
Survivors(size, rows) ==
    IF rows = <<>> THEN <<>>
    ELSE (IF ProcessRow(size, rows[1]).kind = "line"
          THEN <<ProcessRow(size, rows[1]).text>> ELSE <<>>)
         \o Survivors(size, Tail(rows))

HasParseError(size, rows) ==
    \E i \in 1..Len(rows) : ProcessRow(size, rows[i]).kind = "error"

Readable(n) == n \in files /\ img[n].state = "ok"

\* the label file of n is as it was when this invocation started
Untouched(n) == labels[n] = snap.files[n]

\* the tokens of an output line, without its newline
Tokens(text) == Split(SubSeq(text, 1, Len(text) - 1), " ")

\* tok is digits, a point and exactly six digits
SixDecimals(tok) ==
    LET p == Split(tok, ".")
    IN  /\ Len(p) = 2
        /\ p[1] # <<>> /\ \A i \in 1..Len(p[1]) : IsDigit(p[1][i])
        /\ Len(p[2]) = 6 /\ \A i \in 1..6 : IsDigit(p[2][i])

\* the number of millionths tok denotes
Decimal(tok) ==
    LET p == Split(tok, ".")
    IN  DigitsValue(p[1], 0) * Million + DigitsValue(p[2], 0)

Abs(i) == IF i < 0 THEN 0 - i ELSE i

\* m millionths is a decimal nearest to num/den (den even)
Nearest(m, num, den) == Abs(m * den - num * Million) <= den \div 2

\* "2 0.125000 0.125000 0.050000 0.050000\n"
ExampleOutput ==
    <<"2", " ", "0", ".", "1", "2", "5", "0", "0", "0",
           " ", "0", ".", "1", "2", "5", "0", "0", "0",
           " ", "0", ".", "0", "5", "0", "0", "0", "0",
           " ", "0", ".", "0", "5", "0", "0", "0", "0", "\n">>

\* C1: when some annotation file of the split has no sibling image, no exception
\* escapes the driver; once the driver has returned, that file was skipped with a
\* warning and every other file whose image is readable and whose rows all parse
\* has its surviving lines written.
C1_MissingImageOnlySkipsThatFile ==
    (\E n \in files : img[n].state = "missing") =>
        /\ exc = "none"
        /\ pc # "raised"
        /\ pc = "done" =>
               \A n \in files :
                   /\ img[n].state = "missing" =>
                          <<"image not found", n>> \in log /\ Untouched(n)
                   /\ (Readable(n) /\ ~HasParseError(img[n].size, ann[n])
                          /\ Survivors(img[n].size, ann[n]) # <<>>) =>
                          labels[n] = [exists |-> TRUE,
                                       data |-> Survivors(img[n].size, ann[n])]

\* the line text appended for the record `line` of an image of size `size` is
\* "class cx cy nw nh\n" with class = category-1 and the four values the
\* six-decimal renderings of (x1+w/2)/W, (y1+h/2)/H, w/W, h/H
IsYoloLineOf(text, size, line) ==
    LET t == Tokens(text)
        x1 == FieldInt(line, 1)
        y1 == FieldInt(line, 2)
        w == FieldInt(line, 3)
        h == FieldInt(line, 4)
    IN  /\ text[Len(text)] = "\n"
        /\ Len(t) = 5
        /\ PyInt(t[1]) = [ok |-> TRUE, val |-> FieldInt(line, 6) - 1]
        /\ \A i \in 2..5 : SixDecimals(t[i])
        /\ Nearest(Decimal(t[2]), 2 * x1 + w, 2 * size[1])
        /\ Nearest(Decimal(t[3]), 2 * y1 + h, 2 * size[2])
        /\ Nearest(Decimal(t[4]), 2 * w, 2 * size[1])
        /\ Nearest(Decimal(t[5]), 2 * h, 2 * size[2])

NonNegativeBox(line) ==
    IsRecord(line) /\ \A i \in 1..4 : FieldInt(line, i) >= 0

C7_LabelFileIffValidRecord ==
    pc = "done" =>
        \A n \in files :
            labels[n].exists <=>
                (Readable(n) /\ Survivors(img[n].size, ann[n]) # <<>>)

\* an output line with class_id in 0..9 and four six-decimal values in [0,1]
IsBoundedLine(text) ==
    LET t == Tokens(text)
    IN  /\ text # <<>> /\ text[Len(text)] = "\n"
        /\ Len(t) = 5
        /\ PyInt(t[1]).ok /\ PyInt(t[1]).val \in 0..9
        /\ \A i \in 2..5 : SixDecimals(t[i]) /\ Decimal(t[i]) \in 0..Million

\* C8: every line collected for writing has class_id in 0..9 and cx, cy, nw, nh
\* within [0,1]; a row whose remapped class category-1 is outside 0..9 appends
\* nothing, and neither does a row one of whose four normalized values is below 0
\* or above 1.
C8_LinesAreInRange ==
    /\ [](\A i \in 1..Len(lines) : IsBoundedLine(lines[i]))
    /\ [][(HasRow /\ IsRecord(Row)) =>
             LET box == [i \in 1..4 |-> FieldInt(Row, i)]
                 W == img_size[1]
                 H == img_size[2]
             IN  (\/ FieldInt(Row, 6) - 1 \notin 0..9
                  \/ 2 * box[1] + box[3] < 0 \/ 2 * box[1] + box[3] > 2 * W
                  \/ 2 * box[2] + box[4] < 0 \/ 2 * box[2] + box[4] > 2 * H
                  \/ box[3] < 0 \/ box[3] > W
                  \/ box[4] < 0 \/ box[4] > H) =>
                     lines' = lines]_vars

\* a written label file whose record has raw pixel values far outside [0,1]
C8_Witness ==
    /\ pc = "loop"
    /\ cur = "a"
    /\ Len(ann["a"]) = 1
    /\ IsRecord(ann["a"][1])
    /\ FieldInt(ann["a"][1], 6) = 10
    /\ FieldInt(ann["a"][1], 1) = 60
    /\ lines # <<>>
    /\ labels["a"] = [exists |-> TRUE, data |-> lines]

C10_SecondRunChangesNothing ==
    (pc = "done" /\ run >= 2) =>
        /\ labelsDir = snap.dir
        /\ labels = snap.files

\* both invocations wrote the label file of a, and b was iterated too
C10_Witness ==
    /\ pc = "done" /\ run = 2
    /\ Readable("a")
    /\ ann["a"] = <<ValidLine, DroppedLine, ValidLine>>
    /\ labels["a"] = [exists |-> TRUE, data |-> <<ExampleOutput, ExampleOutput>>]
    /\ "b" \in files

====
